---- MODULE Spec2Model ----
(***************************************************************************)
(* Event ingestion and anchor state of proveniq-anchors.                   *)
(*                                                                         *)
(* A request (ingest_event) validates a raw payload, then process_event    *)
(* verifies the signature, stages the event row (flush), reads and         *)
(* modifies the anchor row in its own ORM session, calls the ledger sink   *)
(* and commits.  Every await in process_event is a point where another     *)
(* request may run, so a request is four steps:                            *)
(*   ingest_event -> update_anchor_state -> sync_to_ledger -> commit.      *)
(* Each request slot has its own session; the tables hold committed rows   *)
(* only (READ COMMITTED: a session reads what is committed when it reads). *)
(***************************************************************************)
EXTENDS Integers, Sequences, FiniteSets, TLC

\* ------------------------------------------------------------------ bounds
MaxEvents    == 3       \* events accepted by validation in one behaviour
MaxIncidents == 1       \* rejected payloads, ledger outages, store failures
                        \* and revocations in one behaviour

\* ------------------------------------------------------------------ domains
Requests        == {1, 2}                \* request slots: requests served at once
Null            == "null"                \* Python None / SQL NULL / absent key
HardwareIds     == {"h1", "h2"}
ManufacturerIds == {"mfA"}
PublicKeys      == {"K1"}

\* schemas/events.py EventType
EventType == {"ANCHOR_REGISTERED", "ANCHOR_SEAL_ARMED", "ANCHOR_SEAL_BROKEN",
              "ANCHOR_ENVIRONMENTAL_ALERT", "ANCHOR_CUSTODY_SIGNAL"}
\* models/anchor.py AnchorStatus
AnchorStatus == {"ACTIVE", "SEALED", "BREACHED", "INACTIVE"}
\* schemas/events.py TriggerType
TriggerType == {"MANUAL", "FORCE", "TAMPER", "UNKNOWN"}

LatMax == 900000000       \* GeoCoordinate.validate_lat
LonMax == 1800000000      \* GeoCoordinate.validate_lon

\* ------------------------------------------------------------------ payload
\* A raw payload is a mapping.  "absent" names the keys the payload does not
\* carry; a key of another variant holds Null (0 for an integer) and is
\* never read.
Blank ==
  [absent |-> {}, event_type |-> Null, anchor_id |-> Null, timestamp |-> 0,
   signature |-> Null, schema_version |-> "1.0.0",
   asset_id |-> Null, hardware_model |-> Null,
   firmware_version |-> Null, manufacturer_id |-> Null, seal_id |-> Null,
   trigger_type |-> Null, lat_e7 |-> 0, lon_e7 |-> 0,
   metric |-> Null, value |-> Null, threshold |-> Null,
   challenge_id |-> Null, direction |-> Null, counterparty_pubkey |-> Null]

\* ------------------------------------------------------------------ event model
\* dict: "k in d"
Has(d, k) == k \notin d.absent

\* pydantic: a required str field with min_length=1
Present(d, k) == Has(d, k) /\ d[k] # ""

\* validate_lat with the upper boundary one too far
validate_lat_one_past(v) == -900000000 <= v /\ v <= 900000001

\* schemas/events.py GeoCoordinate.validate_lat
validate_lat(v) == -900000000 <= v /\ v <= 900000000

\* validate_lon with the boundaries excluded
validate_lon_exclusive(v) == -1800000000 < v /\ v < 1800000000

\* schemas/events.py GeoCoordinate.validate_lon
validate_lon(v) == -1800000000 <= v /\ v <= 1800000000

GeoCoordinate(d) ==
  /\ Has(d, "lat_e7") /\ Has(d, "lon_e7")
  /\ validate_lat(d.lat_e7) /\ validate_lon(d.lon_e7)

\* schemas/events.py AnchorEventBase
AnchorEventBase(d) ==
  Present(d, "anchor_id") /\ Has(d, "timestamp") /\ Present(d, "signature")

AnchorRegisteredEvent(d) ==
  /\ AnchorEventBase(d)
  /\ Present(d, "asset_id") /\ Present(d, "hardware_model")
  /\ Present(d, "firmware_version") /\ Present(d, "manufacturer_id")

AnchorSealArmedEvent(d) ==
  AnchorEventBase(d) /\ Present(d, "seal_id") /\ GeoCoordinate(d)

AnchorSealBrokenEvent(d) ==
  /\ AnchorEventBase(d) /\ Present(d, "seal_id")
  /\ d.trigger_type \in TriggerType /\ GeoCoordinate(d)

AnchorEnvironmentalAlertEvent(d) ==
  /\ AnchorEventBase(d) /\ d.metric \in {"SHOCK", "TEMP", "HUMIDITY"}
  /\ Present(d, "value") /\ Present(d, "threshold")

AnchorCustodySignalEvent(d) ==
  /\ AnchorEventBase(d) /\ Present(d, "challenge_id")
  /\ d.direction \in {"RELEASE", "ACCEPT"} /\ Present(d, "counterparty_pubkey")

\* routers/events.py parse_event: TRUE iff the variant's model accepts d.
parse_event(d) ==
  CASE d.event_type = "ANCHOR_REGISTERED"          -> AnchorRegisteredEvent(d)
    [] d.event_type = "ANCHOR_SEAL_ARMED"          -> AnchorSealArmedEvent(d)
    [] d.event_type = "ANCHOR_SEAL_BROKEN"         -> AnchorSealBrokenEvent(d)
    [] d.event_type = "ANCHOR_ENVIRONMENTAL_ALERT" -> AnchorEnvironmentalAlertEvent(d)
    [] d.event_type = "ANCHOR_CUSTODY_SIGNAL"      -> AnchorCustodySignalEvent(d)
    [] OTHER                                       -> FALSE

\* routers/events.py ingest_event, lines 63-92: the HTTP status of the
\* rejection, or "ok" when the payload goes on to process_event.
validation_status(d) ==
  IF ~Has(d, "event_type") THEN "400"
  ELSE IF d.event_type \notin EventType THEN "400"
  ELSE IF ~parse_event(d) THEN "422"
  ELSE "ok"

\* schemas/events.py: the fields of each variant's model.
ModelFields(event_type) ==
  {"event_type", "anchor_id", "timestamp", "signature", "schema_version"} \cup
  CASE event_type = "ANCHOR_REGISTERED" ->
         {"asset_id", "hardware_model", "firmware_version", "manufacturer_id"}
    [] event_type = "ANCHOR_SEAL_ARMED" -> {"seal_id", "lat_e7", "lon_e7"}
    [] event_type = "ANCHOR_SEAL_BROKEN" ->
         {"seal_id", "trigger_type", "lat_e7", "lon_e7"}
    [] event_type = "ANCHOR_ENVIRONMENTAL_ALERT" -> {"metric", "value", "threshold"}
    [] OTHER -> {"challenge_id", "direction", "counterparty_pubkey"}

\* event.model_dump(mode="json"): the model's own fields; a key of the raw
\* payload that the variant's model does not declare is dropped.
model_dump(d) ==
  [k \in DOMAIN Blank |->
     IF k \in ModelFields(d.event_type) THEN d[k] ELSE Blank[k]]

\* ------------------------------------------------------------------ signatures
\* A dict is the sequence of its items, <<key, value>>, in insertion order.
\* dict.get
dict_get(items, k) ==
  IF \E i \in 1..Len(items) : items[i][1] = k
  THEN items[CHOOSE i \in 1..Len(items) : items[i][1] = k][2]
  ELSE Null

\* pydantic dumps the fields in the order the model declares them, the base
\* model's first.
FieldOrder(event_type) ==
  <<"anchor_id", "timestamp", "signature", "schema_version", "event_type">> \o
  CASE event_type = "ANCHOR_REGISTERED" ->
         <<"asset_id", "hardware_model", "firmware_version", "manufacturer_id">>
    [] event_type = "ANCHOR_SEAL_ARMED" -> <<"seal_id", "geo">>
    [] event_type = "ANCHOR_SEAL_BROKEN" -> <<"seal_id", "trigger_type", "geo">>
    [] event_type = "ANCHOR_ENVIRONMENTAL_ALERT" -> <<"metric", "value", "threshold">>
    [] OTHER -> <<"challenge_id", "direction", "counterparty_pubkey">>

\* event_data.items() of the dict model_dump(mode="json") returns: geo is a
\* nested dict.
dict_items(event_data) ==
  LET order == FieldOrder(event_data.event_type)
  IN  [i \in 1..Len(order) |->
         IF order[i] = "geo"
         THEN <<"geo", << <<"lat_e7", event_data.lat_e7>>,
                          <<"lon_e7", event_data.lon_e7>> >> >>
         ELSE <<order[i], event_data[order[i]]>>]

\* The key names of the event models as sorted() orders str keys.
SortedKeyNames ==
  <<"anchor_id", "asset_id", "challenge_id", "counterparty_pubkey", "direction",
    "event_type", "firmware_version", "geo", "hardware_model", "lat_e7",
    "lon_e7", "manufacturer_id", "metric", "schema_version", "seal_id",
    "signature", "threshold", "timestamp", "trigger_type", "value">>

\* "".join
RECURSIVE Concat(_)
Concat(tokens) ==
  IF tokens = <<>> THEN "" ELSE Head(tokens) \o Concat(Tail(tokens))

\* The keys of a dict in insertion order (json.dumps without sort_keys)
InsertionKeys(items) == [i \in 1..Len(items) |-> items[i][1]]

\* The keys of a dict in the order json.dumps writes them with sort_keys=True
SortedKeys(items) ==
  SelectSeq(SortedKeyNames, LAMBDA k : \E i \in 1..Len(items) : items[i][1] = k)

RECURSIVE json_dumps(_)
\* A value as json.dumps writes it: a nested dict, an integer, a string (a
\* timestamp is an ISO 8601 string in mode="json").
json_value(k, v) ==
  IF k = "geo" THEN Concat(json_dumps(v))
  ELSE IF k \in {"lat_e7", "lon_e7"} THEN ToString(v)
  ELSE IF k = "timestamp" THEN "\"" \o ToString(v) \o "\""
  ELSE "\"" \o v \o "\""

\* The tokens of json.dumps(d, separators=(",", ":")) with the keys in the
\* order ks: { key : value , key : value }
RECURSIVE json_members(_, _, _)
json_members(items, ks, n) ==
  IF n > Len(ks) THEN <<>>
  ELSE (IF n > 1 THEN <<",">> ELSE <<>>)
         \o <<"\"" \o ks[n] \o "\"", ":", json_value(ks[n], dict_get(items, ks[n]))>>
         \o json_members(items, ks, n + 1)

\* json.dumps(payload, sort_keys=True, separators=(",", ":")), as the
\* sequence of its tokens
json_dumps(items) ==
  <<"{">> \o json_members(items, SortedKeys(items), 1) \o <<"}">>

\* services/signature.py create_signing_payload: the canonical bytes of a
\* dict (given by its items), as the sequence of the tokens of the JSON text
create_signing_payload(items) ==
  json_dumps(SelectSeq(items, LAMBDA p : p[1] # "signature"))

\* services/signature.py get_manufacturer_key: dict.get
get_manufacturer_key(keys, manufacturer_id) ==
  IF manufacturer_id \in DOMAIN keys THEN keys[manufacturer_id] ELSE Null

\* The base64 text of the Ed25519 signature that the private key paired
\* with public_key makes over the bytes payload (what the device does).
Sign(public_key, payload) == "sig(" \o public_key \o "," \o Concat(payload) \o ")"

\* Base64 texts that do not decode, and texts that decode to bytes of
\* another length than a key's 32 or a signature's 64.
NotBase64   == {"!not-base64"}
WrongLength == {"", "c2hvcnQ="}

\* Lines 75-85: b64decode of key and signature, VerifyKey(...), verify(...).
\* The outcome is "ok" or the exception raised.
Ed25519Verify(public_key_b64, payload, signature_b64) ==
  IF public_key_b64 \in NotBase64 \/ signature_b64 \in NotBase64
    THEN "binascii.Error"
  ELSE IF public_key_b64 \in WrongLength \/ signature_b64 \in WrongLength
    THEN "ValueError"
  ELSE IF signature_b64 # Sign(public_key_b64, payload)
    THEN "BadSignatureError"
  ELSE "ok"

\* verify_signature answering False when it resolves no key
verify_signature_closed(keys, event_data, signature_b64, public_key_b64, manufacturer_id) ==
  LET mid == IF manufacturer_id = Null
             THEN event_data.manufacturer_id
             ELSE manufacturer_id
      key == IF public_key_b64 # Null THEN public_key_b64
             ELSE IF mid # Null /\ mid # "" THEN get_manufacturer_key(keys, mid)
             ELSE Null
  IN  IF key = Null
      THEN FALSE
      ELSE Ed25519Verify(key, create_signing_payload(dict_items(event_data)),
                         signature_b64) = "ok"

\* verify_signature taking any well-formed key and signature for valid
verify_signature_unchecked(keys, event_data, signature_b64, public_key_b64, manufacturer_id) ==
  LET mid == IF manufacturer_id = Null
             THEN event_data.manufacturer_id
             ELSE manufacturer_id
      key == IF public_key_b64 # Null THEN public_key_b64
             ELSE IF mid # Null /\ mid # "" THEN get_manufacturer_key(keys, mid)
             ELSE Null
  IN  IF key = Null
      THEN TRUE
      ELSE Ed25519Verify(key, create_signing_payload(dict_items(event_data)),
                         signature_b64) \in {"ok", "BadSignatureError"}

\* services/signature.py verify_signature: True when no key is resolved
\* (line 72), True when the check passes (line 86), False on any exception
\* (lines 88-91).
verify_signature(keys, event_data, signature_b64, public_key_b64, manufacturer_id) ==
  LET mid == IF manufacturer_id = Null
             THEN event_data.manufacturer_id      \* event_data.get(...)
             ELSE manufacturer_id
      key == IF public_key_b64 # Null THEN public_key_b64
             ELSE IF mid # Null /\ mid # "" THEN get_manufacturer_key(keys, mid)
             ELSE Null
  IN  IF key = Null
      THEN TRUE                                   \* line 72: return True
      ELSE Ed25519Verify(key, create_signing_payload(dict_items(event_data)),
                         signature_b64) = "ok"

\* ------------------------------------------------------------------ payloads
\* The payload d as the device sends it: signed over its canonical bytes
\* with the private key paired with public_key.
SignedBy(d, public_key) ==
  [d EXCEPT !.signature =
     Sign(public_key, create_signing_payload(dict_items(model_dump(d))))]

\* The inputs of each variant: hardware id, timestamp, the key the device
\* signs with (K1, or K9, a key no manufacturer has) and the variant's own
\* fields (ANCHOR_REGISTERED: asset, firmware, hardware model, manufacturer).
RegisteredInputs ==
  { <<"h1", 1, "K1", "a1", "f1", "m1", "mfA">>,
    <<"h1", 2, "K1", "a2", "f2", "m2", "mfB">>,
    <<"h1", 1, "K9", "a1", "f1", "m1", "mfA">>,
    <<"h2", 1, "K1", "a1", "f1", "m1", "mfA">> }
SealArmedInputs ==
  { <<"h1", 1, "K1", "s1">>, <<"h1", 2, "K1", "s2">>,
    <<"h1", 1, "K9", "s1">> }
SealBrokenInputs == { <<"h1", 1, "K1", "s1">> }
EnvironmentalAlertInputs == { <<"h1", 2, "K1">> }
CustodySignalInputs == { <<"h1", 1, "K1">> }

RegisteredPayloads ==
  { SignedBy([Blank EXCEPT !.event_type = "ANCHOR_REGISTERED", !.anchor_id = i[1],
       !.timestamp = i[2], !.asset_id = i[4],
       !.hardware_model = i[6], !.firmware_version = i[5],
       !.manufacturer_id = i[7]], i[3]) : i \in RegisteredInputs }

SealArmedPayloads ==
  { SignedBy([Blank EXCEPT !.event_type = "ANCHOR_SEAL_ARMED", !.anchor_id = i[1],
       !.timestamp = i[2], !.seal_id = i[4],
       !.lat_e7 = LatMax, !.lon_e7 = -LonMax], i[3]) : i \in SealArmedInputs }

SealBrokenPayloads ==
  { SignedBy([Blank EXCEPT !.event_type = "ANCHOR_SEAL_BROKEN", !.anchor_id = i[1],
       !.timestamp = i[2], !.seal_id = i[4],
       !.trigger_type = "TAMPER", !.lat_e7 = -LatMax, !.lon_e7 = LonMax], i[3]) :
      i \in SealBrokenInputs }

EnvironmentalAlertPayloads ==
  { SignedBy([Blank EXCEPT !.event_type = "ANCHOR_ENVIRONMENTAL_ALERT", !.anchor_id = i[1],
       !.timestamp = i[2], !.metric = "SHOCK",
       !.value = "9g", !.threshold = "5g"], i[3]) : i \in EnvironmentalAlertInputs }

CustodySignalPayloads ==
  { SignedBy([Blank EXCEPT !.event_type = "ANCHOR_CUSTODY_SIGNAL", !.anchor_id = i[1],
       !.timestamp = i[2], !.challenge_id = "c1",
       !.direction = "RELEASE", !.counterparty_pubkey = "K2"], i[3]) :
      i \in CustodySignalInputs }

WellFormedPayloads ==
  RegisteredPayloads \cup SealArmedPayloads \cup SealBrokenPayloads
    \cup EnvironmentalAlertPayloads \cup CustodySignalPayloads

\* One payload of each of three variants that passes validation, to be
\* damaged ("c2ln" is some base64 text).
BaseArmed  == [Blank EXCEPT !.event_type = "ANCHOR_SEAL_ARMED", !.anchor_id = "h1",
                 !.timestamp = 1, !.signature = "c2ln", !.seal_id = "s1",
                 !.lat_e7 = LatMax, !.lon_e7 = LonMax]
BaseBroken == [BaseArmed EXCEPT !.event_type = "ANCHOR_SEAL_BROKEN",
                 !.trigger_type = "FORCE"]
BaseRegistered ==
  [Blank EXCEPT !.event_type = "ANCHOR_REGISTERED", !.anchor_id = "h1",
     !.timestamp = 1, !.signature = "c2ln", !.asset_id = "a1",
     !.hardware_model = "m1", !.firmware_version = "f1",
     !.manufacturer_id = "mfA"]

\* Payloads the router must reject: no event_type, an event_type outside the
\* five, a missing or empty field, an enumeration value outside its type, a
\* coordinate one past the boundary.
MalformedPayloads ==
  { [BaseArmed EXCEPT !.absent = {"event_type"}],
    [BaseArmed EXCEPT !.event_type = "ANCHOR_DELETED"],
    [BaseArmed EXCEPT !.lat_e7 = LatMax + 1],
    [BaseArmed EXCEPT !.lat_e7 = -LatMax - 1],
    [BaseArmed EXCEPT !.lon_e7 = LonMax + 1],
    [BaseArmed EXCEPT !.lon_e7 = -LonMax - 1],
    [BaseArmed EXCEPT !.seal_id = ""],
    [BaseArmed EXCEPT !.absent = {"seal_id"}],
    [BaseArmed EXCEPT !.signature = ""],
    [BaseArmed EXCEPT !.anchor_id = ""],
    [BaseArmed EXCEPT !.absent = {"timestamp"}],
    [BaseBroken EXCEPT !.trigger_type = "CUT"],
    [BaseBroken EXCEPT !.lat_e7 = LatMax + 1],
    [BaseRegistered EXCEPT !.absent = {"manufacturer_id"}],
    [BaseRegistered EXCEPT !.firmware_version = ""],
    [BaseRegistered EXCEPT !.absent = {"asset_id"}],
    [BaseArmed EXCEPT !.absent = {"lat_e7"}] }

RawPayloads == WellFormedPayloads \cup MalformedPayloads

\* ------------------------------------------------------------------ state
VARIABLES
  anchors,            \* committed rows of table anchors (a set of records)
  anchor_events,      \* committed rows of table anchor_events, in commit order
  manufacturer_keys,  \* SignatureService._manufacturer_keys
  pc,                 \* pc[r]: where request r stands in process_event
  request,            \* request[r]: the raw payload of request r
  session,            \* session[r]: the ORM session (unit of work) of request r
  response,           \* the HTTP status of the last response sent
  accepted,           \* number of payloads that passed validation
  verify_calls,       \* number of calls of verify_signature
  ledger_calls,       \* number of calls of ledger_service.write_event
  incidents,          \* number of incidents so far (bounded by MaxIncidents)
  ledger_state,       \* the ledger sink: "up", "faulty" or "down"
  call,               \* a direct call of a SignatureService function
  result              \* what that call returned

vars == <<anchors, anchor_events, manufacturer_keys, pc, request, session,
          response, accepted, verify_calls, ledger_calls, incidents,
          ledger_state, call, result>>

\* An optional row is <<>> (None) or <<row>>.
NoRow == <<>>

EmptySession == [db_event |-> NoRow, loaded |-> NoRow, anchor |-> NoRow,
                 is_new |-> FALSE]

\* A select that falls back to some anchor when none has the hardware id
SelectAnchor_any(rows, anchor_id) ==
  IF \E a \in rows : a.anchor_id = anchor_id
  THEN <<CHOOSE a \in rows : a.anchor_id = anchor_id>>
  ELSE IF rows # {} THEN <<CHOOSE a \in rows : TRUE>>
  ELSE NoRow

\* select(Anchor).where(Anchor.anchor_id == anchor_id) .scalar_one_or_none()
\* (the unique index on anchor_id leaves at most one row to return)
SelectAnchor(rows, anchor_id) ==
  IF \E a \in rows : a.anchor_id = anchor_id
  THEN <<CHOOSE a \in rows : a.anchor_id = anchor_id>>
  ELSE NoRow

\* ------------------------------------------------------------------ state machine
\* on_registered creating the anchor without binding the event's asset
on_registered_unbound(found, event) ==
  IF found = NoRow
  THEN [anchor |-> <<[id |-> 0, anchor_id |-> event.anchor_id,
                      asset_id |-> Null,
                      hardware_model |-> event.hardware_model,
                      firmware_version |-> event.firmware_version,
                      manufacturer_id |-> event.manufacturer_id,
                      public_key |-> "", status |-> "ACTIVE",
                      current_seal_id |-> Null,
                      last_event_at |-> event.timestamp,
                      updated_at |-> 0,
                      is_revoked |-> FALSE]>>,
        is_new |-> TRUE]
  ELSE [anchor |-> <<[found[1] EXCEPT !.asset_id = event.asset_id,
                                      !.firmware_version = event.firmware_version,
                                      !.last_event_at = event.timestamp]>>,
        is_new |-> FALSE]

\* on_registered putting a re-registered anchor back to its first state
on_registered_resets(found, event) ==
  IF found = NoRow
  THEN [anchor |-> <<[id |-> 0, anchor_id |-> event.anchor_id,
                      asset_id |-> event.asset_id,
                      hardware_model |-> event.hardware_model,
                      firmware_version |-> event.firmware_version,
                      manufacturer_id |-> event.manufacturer_id,
                      public_key |-> "", status |-> "ACTIVE",
                      current_seal_id |-> Null,
                      last_event_at |-> event.timestamp,
                      updated_at |-> 0,
                      is_revoked |-> FALSE]>>,
        is_new |-> TRUE]
  ELSE [anchor |-> <<[found[1] EXCEPT !.asset_id = event.asset_id,
                                      !.firmware_version = event.firmware_version,
                                      !.status = "ACTIVE",
                                      !.current_seal_id = Null,
                                      !.last_event_at = event.timestamp]>>,
        is_new |-> FALSE]

\* services/event_processor.py _update_anchor_state, lines 135-151
on_registered(found, event) ==
  IF found = NoRow
  THEN [anchor |-> <<[id |-> 0, anchor_id |-> event.anchor_id,
                      asset_id |-> event.asset_id,
                      hardware_model |-> event.hardware_model,
                      firmware_version |-> event.firmware_version,
                      manufacturer_id |-> event.manufacturer_id,
                      public_key |-> "", status |-> "ACTIVE",
                      current_seal_id |-> Null,
                      last_event_at |-> event.timestamp,
                      updated_at |-> 0,
                      is_revoked |-> FALSE]>>,
        is_new |-> TRUE]
  ELSE [anchor |-> <<[found[1] EXCEPT !.asset_id = event.asset_id,
                                      !.firmware_version = event.firmware_version,
                                      !.last_event_at = event.timestamp]>>,
        is_new |-> FALSE]

\* on_seal_armed leaving last_event_at as it was
on_seal_armed_keeps_time(found, event) ==
  IF found # NoRow
  THEN [anchor |-> <<[found[1] EXCEPT !.status = "SEALED",
                                      !.current_seal_id = event.seal_id]>>,
        is_new |-> FALSE]
  ELSE [anchor |-> NoRow, is_new |-> FALSE]

\* on_seal_armed creating the anchor it does not find
on_seal_armed_upsert(found, event) ==
  IF found # NoRow
  THEN [anchor |-> <<[found[1] EXCEPT !.status = "SEALED",
                                      !.current_seal_id = event.seal_id,
                                      !.last_event_at = event.timestamp]>>,
        is_new |-> FALSE]
  ELSE [anchor |-> <<[id |-> 0, anchor_id |-> event.anchor_id,
                      asset_id |-> Null, hardware_model |-> "",
                      firmware_version |-> "", manufacturer_id |-> "",
                      public_key |-> "", status |-> "SEALED",
                      current_seal_id |-> event.seal_id,
                      last_event_at |-> event.timestamp,
                      updated_at |-> 0,
                      is_revoked |-> FALSE]>>,
        is_new |-> TRUE]

\* on_seal_armed never moving last_event_at backwards
on_seal_armed_monotone(found, event) ==
  IF found # NoRow
  THEN [anchor |-> <<[found[1] EXCEPT !.status = "SEALED",
                                      !.current_seal_id = event.seal_id,
                                      !.last_event_at =
                                        IF event.timestamp > found[1].last_event_at
                                        THEN event.timestamp
                                        ELSE found[1].last_event_at]>>,
        is_new |-> FALSE]
  ELSE [anchor |-> NoRow, is_new |-> FALSE]

\* on_seal_armed refusing to re-arm an anchor whose seal was broken
on_seal_armed_guarded(found, event) ==
  IF found # NoRow /\ found[1].status # "BREACHED"
  THEN [anchor |-> <<[found[1] EXCEPT !.status = "SEALED",
                                      !.current_seal_id = event.seal_id,
                                      !.last_event_at = event.timestamp]>>,
        is_new |-> FALSE]
  ELSE [anchor |-> found, is_new |-> FALSE]

\* lines 159-162
on_seal_armed(found, event) ==
  IF found # NoRow
  THEN [anchor |-> <<[found[1] EXCEPT !.status = "SEALED",
                                      !.current_seal_id = event.seal_id,
                                      !.last_event_at = event.timestamp]>>,
        is_new |-> FALSE]
  ELSE [anchor |-> NoRow, is_new |-> FALSE]

\* on_seal_broken taking a breached anchor out of service
on_seal_broken_retires(found, event) ==
  IF found # NoRow
  THEN [anchor |-> <<[found[1] EXCEPT !.status = "INACTIVE",
                                      !.current_seal_id = Null,
                                      !.last_event_at = event.timestamp]>>,
        is_new |-> FALSE]
  ELSE [anchor |-> NoRow, is_new |-> FALSE]

\* on_seal_broken acting only when the event names the anchor's current seal
on_seal_broken_matching(found, event) ==
  IF found # NoRow /\ found[1].current_seal_id = event.seal_id
  THEN [anchor |-> <<[found[1] EXCEPT !.status = "BREACHED",
                                      !.current_seal_id = Null,
                                      !.last_event_at = event.timestamp]>>,
        is_new |-> FALSE]
  ELSE [anchor |-> found, is_new |-> FALSE]

\* lines 170-173
on_seal_broken(found, event) ==
  IF found # NoRow
  THEN [anchor |-> <<[found[1] EXCEPT !.status = "BREACHED",
                                      !.current_seal_id = Null,
                                      !.last_event_at = event.timestamp]>>,
        is_new |-> FALSE]
  ELSE [anchor |-> NoRow, is_new |-> FALSE]

\* on_other taking any event from the device as a sign that it is in service
on_other_activates(found, event) ==
  IF found # NoRow
  THEN [anchor |-> <<[found[1] EXCEPT !.status = "ACTIVE",
                                      !.last_event_at = event.timestamp]>>,
        is_new |-> FALSE]
  ELSE [anchor |-> NoRow, is_new |-> FALSE]

\* lines 182-183
on_other(found, event) ==
  IF found # NoRow
  THEN [anchor |-> <<[found[1] EXCEPT !.last_event_at = event.timestamp]>>,
        is_new |-> FALSE]
  ELSE [anchor |-> NoRow, is_new |-> FALSE]

\* _update_anchor_state failing when the event names no anchor (the select
\* read with scalar_one(), which raises NoResultFound)
update_anchor_state_strict(found, event) ==
  CASE event.event_type = "ANCHOR_REGISTERED"  -> on_registered(found, event)
    [] found = NoRow ->
         [anchor |-> NoRow, is_new |-> FALSE, raised |-> "NoResultFound"]
    [] event.event_type = "ANCHOR_SEAL_ARMED"  -> on_seal_armed(found, event)
    [] event.event_type = "ANCHOR_SEAL_BROKEN" -> on_seal_broken(found, event)
    [] OTHER                                   -> on_other(found, event)

\* _update_anchor_state: the isinstance dispatch.  found is the row the
\* select returned; the result is the session's anchor object afterwards.
update_anchor_state(found, event) ==
  CASE event.event_type = "ANCHOR_REGISTERED"  -> on_registered(found, event)
    [] event.event_type = "ANCHOR_SEAL_ARMED"  -> on_seal_armed(found, event)
    [] event.event_type = "ANCHOR_SEAL_BROKEN" -> on_seal_broken(found, event)
    [] OTHER                                   -> on_other(found, event)

\* services/event_processor.py _store_event: the staged anchor_events row
store_event(event, event_data, signature_verified) ==
  [event_type |-> event.event_type, anchor_id |-> event.anchor_id,
   event_timestamp |-> event.timestamp, signature |-> event.signature,
   signature_verified |-> signature_verified, raw_payload |-> event_data,
   asset_id |-> event.asset_id, seal_id |-> event.seal_id,
   manufacturer_id |-> event.manufacturer_id,
   geo_lat_e7 |-> IF event.event_type \in {"ANCHOR_SEAL_ARMED", "ANCHOR_SEAL_BROKEN"}
                  THEN event.lat_e7 ELSE Null,
   geo_lon_e7 |-> IF event.event_type \in {"ANCHOR_SEAL_ARMED", "ANCHOR_SEAL_BROKEN"}
                  THEN event.lon_e7 ELSE Null,
   ledger_synced |-> FALSE, ledger_event_id |-> <<>>,
   processed |-> FALSE, processing_error |-> Null]

\* What the POST to the ledger can end in: a 201 carrying an event id, a 201
\* whose body has no event_id (UUID(None) raises), another status, a
\* transport error (httpx.RequestError: timeout, connection refused).
LedgerReplies == {"201", "201 no event_id", "500", "timeout"}
LedgerStates  == {"up", "faulty", "down"}

\* A POST with no timeout set: it does not return while the ledger is down
post_outcomes_no_timeout(state) ==
  CASE state = "up"     -> {"201"}
    [] state = "faulty" -> {"201 no event_id", "500"}
    [] state = "down"   -> {}

\* services/ledger.py lines 39-54, httpx.AsyncClient(timeout=30.0).post: how
\* the POST can end for a ledger that works, one that answers wrongly and
\* one that cannot be reached or does not answer (the timeout ends it).
post_outcomes(state) ==
  CASE state = "up"     -> {"201"}
    [] state = "faulty" -> {"201 no event_id", "500"}
    [] state = "down"   -> {"timeout"}

\* write_event returning an id for whatever the ledger answered
write_event_any_reply(reply) ==
  IF reply \in {"201", "201 no event_id", "500"} THEN <<"ledger-uuid">> ELSE <<>>

\* services/ledger.py write_event: the ledger's event id in a one-element
\* tuple on a 201, <<>> (None) on any other reply and on every exception.
write_event(reply) == IF reply = "201" THEN <<"ledger-uuid">> ELSE <<>>

\* _sync_to_ledger skipping the ledger for an event that failed verification
sync_to_ledger_verified_only(db_event, ledger_event_id) ==
  IF ~db_event.signature_verified THEN db_event
  ELSE IF ledger_event_id # <<>>
  THEN [db_event EXCEPT !.ledger_synced = TRUE,
                        !.ledger_event_id = ledger_event_id,
                        !.processed = TRUE]
  ELSE [db_event EXCEPT !.processed = TRUE]

\* services/event_processor.py _sync_to_ledger, lines 196-201
sync_to_ledger(db_event, ledger_event_id) ==
  IF ledger_event_id # <<>>
  THEN [db_event EXCEPT !.ledger_synced = TRUE,
                        !.ledger_event_id = ledger_event_id,
                        !.processed = TRUE]
  ELSE [db_event EXCEPT !.processed = TRUE]

\* ------------------------------------------------------------------ the store
AnchorColumns == {"asset_id", "hardware_model", "firmware_version",
                  "manufacturer_id", "public_key", "status", "current_seal_id",
                  "last_event_at", "is_revoked"}

\* The unit of work's UPDATE sets the columns whose value differs from the
\* value the session loaded, and no others.
ChangedColumns(loaded, obj) == {c \in AnchorColumns : obj[c] # loaded[c]}

\* An UPDATE without its WHERE clause: the changed columns go to every row
UpdateAnchor_all_rows(rows, loaded, obj) ==
  { IF ChangedColumns(loaded, obj) # {}
    THEN [c \in DOMAIN a |->
            IF c \in ChangedColumns(loaded, obj) THEN obj[c]
            ELSE IF c = "updated_at" THEN a[c] + 1
            ELSE a[c]]
    ELSE a : a \in rows }

\* UPDATE anchors SET <changed columns>, updated_at = now() WHERE id = obj.id;
\* no statement is sent for an object with no changed column.  updated_at
\* (onupdate=func.now()) is kept as the number of UPDATEs the row has had.
UpdateAnchor(rows, loaded, obj) ==
  { IF a.id = obj.id /\ ChangedColumns(loaded, obj) # {}
    THEN [c \in DOMAIN a |->
            IF c \in ChangedColumns(loaded, obj) THEN obj[c]
            ELSE IF c = "updated_at" THEN a[c] + 1
            ELSE a[c]]
    ELSE a : a \in rows }

\* models/anchor.py line 27: anchor_id is unique=True (ix_anchors_anchor_id)
UniqueViolation(rows, obj) == \E a \in rows : a.anchor_id = obj.anchor_id

\* INSERT INTO anchors: the primary key is a fresh uuid4
InsertAnchor(rows, obj) ==
  rows \cup {[obj EXCEPT !.id = Cardinality(rows) + 1]}

\* An insert keeping one record per hardware id and event type: a later
\* event of the same kind overwrites the record of the earlier one
InsertEvent_latest(rows, db_event) ==
  IF \E i \in 1..Len(rows) : /\ rows[i].anchor_id = db_event.anchor_id
                             /\ rows[i].event_type = db_event.event_type
  THEN [i \in 1..Len(rows) |->
          IF /\ rows[i].anchor_id = db_event.anchor_id
             /\ rows[i].event_type = db_event.event_type
          THEN db_event ELSE rows[i]]
  ELSE Append(rows, db_event)

\* An insert that skips a payload some stored event already carries
InsertEvent_dedup(rows, db_event) ==
  IF \E i \in 1..Len(rows) : rows[i].raw_payload = db_event.raw_payload
  THEN rows ELSE Append(rows, db_event)

\* INSERT INTO anchor_events (the row added at _store_event line 120)
InsertEvent(rows, db_event) == Append(rows, db_event)

\* A flush that leaves the session's anchor object out of the transaction
FlushAnchor_lost(rows, sess) == rows

\* The flush of the session's anchor object at commit.
FlushAnchor(rows, sess) ==
  IF sess.anchor = NoRow THEN rows
  ELSE IF sess.is_new THEN InsertAnchor(rows, sess.anchor[1])
  ELSE UpdateAnchor(rows, sess.loaded[1], sess.anchor[1])

\* The anchors after process_event has run alone, from select to commit, on
\* the validated event with the table being rows.
process_event_anchors(rows, event) ==
  LET found == SelectAnchor(rows, event.anchor_id)
      after == update_anchor_state(found, event)
  IN  FlushAnchor(rows, [EmptySession EXCEPT !.loaded = found,
                                             !.anchor = after.anchor,
                                             !.is_new = after.is_new])

\* ------------------------------------------------------------------ actions
\* No direct call of a SignatureService function: the requests are all.
NoCall == [op |-> "none", items |-> <<>>, event_data |-> Blank,
           signature_b64 |-> Null, public_key_b64 |-> Null,
           manufacturer_id |-> Null, keys |-> [m \in {} |-> Null]]
NoResult == [returned |-> FALSE, canonical |-> <<>>, verified |-> FALSE]

Init ==
  /\ anchors = {}
  /\ anchor_events = <<>>
  /\ manufacturer_keys = [m \in {} |-> Null]
  /\ pc = [r \in Requests |-> "idle"]
  /\ request = [r \in Requests |-> Blank]
  /\ session = [r \in Requests |-> EmptySession]
  /\ response = "none"
  /\ accepted = 0
  /\ verify_calls = 0
  /\ ledger_calls = 0
  /\ incidents = 0
  /\ ledger_state = "up"
  /\ call = NoCall
  /\ result = NoResult

\* services/signature.py register_manufacturer_key (trust provisioning)
register_manufacturer_key(manufacturer_id, public_key_b64) ==
  /\ manufacturer_keys' =
       [m \in DOMAIN manufacturer_keys \cup {manufacturer_id} |->
          IF m = manufacturer_id THEN public_key_b64 ELSE manufacturer_keys[m]]
  /\ UNCHANGED <<anchors, anchor_events, pc, request, session, response,
                 accepted, verify_calls, ledger_calls, incidents,
                 ledger_state, call, result>>

\* Soft revocation of an anchor: the store's is_revoked column is set by an
\* operator outside the event pipeline.
Revoke(anchor_id) ==
  /\ incidents < MaxIncidents
  /\ incidents' = incidents + 1
  /\ \E a \in anchors : a.anchor_id = anchor_id /\ ~a.is_revoked
  /\ anchors' = { IF a.anchor_id = anchor_id
                  THEN [a EXCEPT !.is_revoked = TRUE] ELSE a : a \in anchors }
  /\ UNCHANGED <<anchor_events, manufacturer_keys, pc, request, session,
                 response, accepted, verify_calls, ledger_calls,
                 ledger_state, call, result>>

\* routers/events.py ingest_event up to the first await of process_event:
\* validate; on success verify the signature and stage the event row
\* (process_event lines 50-60, _store_event's add and flush).
ingest_event(r, data) ==
  /\ pc[r] = "idle"
  /\ IF validation_status(data) # "ok"
     THEN /\ incidents < MaxIncidents
          /\ incidents' = incidents + 1
          /\ response' = validation_status(data)      \* HTTPException
          /\ UNCHANGED <<anchors, anchor_events, manufacturer_keys, pc, request,
                         session, accepted, verify_calls, ledger_calls,
                         ledger_state, call, result>>
     ELSE /\ accepted < MaxEvents
          /\ request' = [request EXCEPT ![r] = data]
          /\ LET event == model_dump(data)
                 event_data == model_dump(data)
                 signature_verified ==
                   verify_signature(manufacturer_keys, event_data,
                                    event.signature, Null, event.manufacturer_id)
             IN  session' = [session EXCEPT ![r] =
                   [EmptySession EXCEPT !.db_event =
                      <<store_event(event, event_data, signature_verified)>>]]
          /\ pc' = [pc EXCEPT ![r] = "stored"]
          /\ accepted' = accepted + 1
          /\ verify_calls' = verify_calls + 1
          /\ UNCHANGED <<anchors, anchor_events, manufacturer_keys, response,
                         ledger_calls, incidents, ledger_state, call, result>>

\* process_event line 63: _update_anchor_state reads the anchor row as
\* committed now and changes the session's object.
update_anchor(r) ==
  /\ pc[r] = "stored"
  /\ LET event == model_dump(request[r])
         found == SelectAnchor(anchors, event.anchor_id)
         after == update_anchor_state(found, event)
     IN  session' = [session EXCEPT ![r].loaded = found,
                                    ![r].anchor = after.anchor,
                                    ![r].is_new = after.is_new]
  /\ pc' = [pc EXCEPT ![r] = "updated"]
  /\ UNCHANGED <<anchors, anchor_events, manufacturer_keys, request, response,
                 accepted, verify_calls, ledger_calls, incidents,
                 ledger_state, call, result>>

\* The ledger sink, an external service, stops working: it answers wrongly
\* from now on (faulty) or cannot be reached (down).
ledger_outage(state) ==
  /\ ledger_state = "up" /\ state # "up"
  /\ incidents < MaxIncidents
  /\ incidents' = incidents + 1
  /\ ledger_state' = state
  /\ UNCHANGED <<anchors, anchor_events, manufacturer_keys, pc, request,
                 session, response, accepted, verify_calls, ledger_calls,
                 call, result>>

\* process_event line 66: _sync_to_ledger; the way the POST ends is the input.
ledger_sync(r, reply) ==
  /\ pc[r] = "updated"
  /\ reply \in post_outcomes(ledger_state)
  /\ session' = [session EXCEPT ![r].db_event =
       <<sync_to_ledger(session[r].db_event[1], write_event(reply))>>]
  /\ ledger_calls' = ledger_calls + 1
  /\ pc' = [pc EXCEPT ![r] = "synced"]
  /\ UNCHANGED <<anchors, anchor_events, manufacturer_keys, request, response,
                 accepted, verify_calls, incidents, ledger_state, call, result>>

\* process_event line 68: db.commit() flushes the session and commits the
\* event row and the anchor change in one transaction; store_up = FALSE is
\* a storage failure.  An exception leaves the transaction uncommitted and
\* the request ends with a server error; otherwise ingest_event returns the
\* 201 response (lines 98-105).  Either way the request's session is closed.
commit(r, store_up) ==
  /\ pc[r] = "synced"
  /\ pc' = [pc EXCEPT ![r] = "idle"]
  /\ request' = [request EXCEPT ![r] = Blank]
  /\ session' = [session EXCEPT ![r] = EmptySession]
  /\ IF ~store_up
     THEN /\ incidents < MaxIncidents
          /\ incidents' = incidents + 1
          /\ response' = "500 OperationalError"
          /\ UNCHANGED <<anchors, anchor_events>>
     ELSE IF session[r].is_new /\ UniqueViolation(anchors, session[r].anchor[1])
     THEN /\ response' = "500 IntegrityError"
          /\ UNCHANGED <<anchors, anchor_events, incidents>>
     ELSE /\ anchors' = FlushAnchor(anchors, session[r])
          /\ anchor_events' = InsertEvent(anchor_events, session[r].db_event[1])
          /\ response' = "201"
          /\ UNCHANGED incidents
  /\ UNCHANGED <<manufacturer_keys, accepted, verify_calls, ledger_calls,
                 ledger_state, call, result>>

InProcess(r) == pc[r] # "idle"

\* Request slots are interchangeable: a new request takes the lowest free one.
LowestFree(r) == \A q \in Requests : q < r => pc[q] # "idle"

Next ==
  \/ \E m \in ManufacturerIds, k \in PublicKeys : register_manufacturer_key(m, k)
  \/ \E h \in HardwareIds : Revoke(h)
  \/ \E state \in LedgerStates : ledger_outage(state)
  \/ \E r \in Requests, d \in RawPayloads : LowestFree(r) /\ ingest_event(r, d)
  \/ \E r \in Requests : update_anchor(r)
  \/ \E r \in Requests, reply \in LedgerReplies : ledger_sync(r, reply)
  \/ \E r \in Requests, up \in BOOLEAN : commit(r, up)

Spec == Init /\ [][Next]_vars

\* One request at a time: a request is taken only when no other is in
\* process_event.
NextSerial ==
  \/ \E m \in ManufacturerIds, k \in PublicKeys : register_manufacturer_key(m, k)
  \/ \E h \in HardwareIds : Revoke(h)
  \/ \E state \in LedgerStates : ledger_outage(state)
  \/ \E r \in Requests, d \in RawPayloads :
       (\A q \in Requests : ~InProcess(q)) /\ LowestFree(r) /\ ingest_event(r, d)
  \/ \E r \in Requests : update_anchor(r)
  \/ \E r \in Requests, reply \in LedgerReplies : ledger_sync(r, reply)
  \/ \E r \in Requests, up \in BOOLEAN : commit(r, up)

SpecSerial == Init /\ [][NextSerial]_vars

\* The service with a ledger that cannot be reached and never comes back.
InitLedgerDown ==
  /\ anchors = {}
  /\ anchor_events = <<>>
  /\ manufacturer_keys = [m \in {} |-> Null]
  /\ pc = [r \in Requests |-> "idle"]
  /\ request = [r \in Requests |-> Blank]
  /\ session = [r \in Requests |-> EmptySession]
  /\ response = "none"
  /\ accepted = 0
  /\ verify_calls = 0
  /\ ledger_calls = 0
  /\ incidents = 0
  /\ ledger_state = "down"
  /\ call = NoCall
  /\ result = NoResult

NextLedgerDown ==
  \/ \E r \in Requests, d \in RawPayloads : LowestFree(r) /\ ingest_event(r, d)
  \/ \E r \in Requests : update_anchor(r)
  \/ \E r \in Requests, reply \in LedgerReplies : ledger_sync(r, reply)
  \/ \E r \in Requests, up \in BOOLEAN : commit(r, up)

\* The event loop resumes a coroutine whose await has completed: each step
\* of process_event that can be taken is taken.
FairPipeline ==
  \A r \in Requests :
    /\ WF_vars(update_anchor(r))
    /\ WF_vars(\E reply \in LedgerReplies : ledger_sync(r, reply))
    /\ WF_vars(\E up \in BOOLEAN : commit(r, up))

SpecLedgerDown == InitLedgerDown /\ [][NextLedgerDown]_vars /\ FairPipeline

\* ------------------------------------------------------------------ direct calls
\* The orders in which the keys K can have been inserted in a dict
KeyOrders(K) ==
  {o \in [1..Cardinality(K) -> K] : \A i, j \in 1..Cardinality(K) : i # j => o[i] # o[j]}

\* A nested geo dict, its two keys in either order
GeoDicts ==
  { << <<"lat_e7", 1>>, <<"lon_e7", 2>> >>, << <<"lon_e7", 2>>, <<"lat_e7", 1>> >> }

\* The payload maps given to create_signing_payload: anchor_id, seal_id and
\* geo, with or without a top-level signature, in every insertion order.
CanonCalls ==
  { [NoCall EXCEPT !.op = "create_signing_payload",
                   !.items = [i \in DOMAIN o |->
                     <<o[i], CASE o[i] = "anchor_id" -> "h1"
                               [] o[i] = "seal_id"   -> seal
                               [] o[i] = "signature" -> sig
                               [] o[i] = "geo"       -> geo>>]] :
      o \in KeyOrders({"anchor_id", "seal_id", "geo", "signature"})
              \cup KeyOrders({"anchor_id", "seal_id", "geo"}),
      seal \in {"s1", "s2"}, sig \in {"c2lnQQ==", "c2lnQg=="}, geo \in GeoDicts }

\* The event verify_signature is called with, and its canonical bytes
VerifiedEvent ==
  model_dump([Blank EXCEPT !.event_type = "ANCHOR_REGISTERED", !.anchor_id = "h1",
                !.timestamp = 1, !.asset_id = "a1", !.hardware_model = "m1",
                !.firmware_version = "f1", !.manufacturer_id = "mfA"])
VerifiedBytes == create_signing_payload(dict_items(VerifiedEvent))

\* The calls of verify_signature: signatures made by K1, by K2, by K1 over
\* other bytes, one that is not base64 and one too short; a key supplied
\* (none, K1, K2, not base64, too short, empty); a manufacturer id supplied
\* (none, mfA, mfB); a registry that is empty or holds a key for mfA.
VerifyCalls ==
  { [NoCall EXCEPT !.op = "verify_signature", !.event_data = VerifiedEvent,
                   !.signature_b64 = sig, !.public_key_b64 = key,
                   !.manufacturer_id = mid, !.keys = keys] :
      sig \in {Sign("K1", VerifiedBytes), Sign("K2", VerifiedBytes),
               Sign("K1", <<"{", "}">>), "!not-base64", "c2hvcnQ="},
      key \in {Null, "K1", "K2", "!not-base64", "c2hvcnQ=", ""},
      mid \in {Null, "mfA", "mfB"},
      keys \in {[m \in {} |-> Null], [m \in {"mfA"} |-> "K1"],
                [m \in {"mfA"} |-> "K2"], [m \in {"mfA"} |-> "c2hvcnQ="]} }

\* A direct call of create_signing_payload returns.
create_signing_payload_call ==
  /\ call.op = "create_signing_payload" /\ ~result.returned
  /\ result' = [NoResult EXCEPT !.returned = TRUE,
                                !.canonical = create_signing_payload(call.items)]
  /\ UNCHANGED <<anchors, anchor_events, manufacturer_keys, pc, request,
                 session, response, accepted, verify_calls, ledger_calls,
                 incidents, ledger_state, call>>

\* A direct call of verify_signature returns.
verify_signature_call ==
  /\ call.op = "verify_signature" /\ ~result.returned
  /\ result' = [NoResult EXCEPT !.returned = TRUE,
                                !.verified =
                  verify_signature(call.keys, call.event_data, call.signature_b64,
                                   call.public_key_b64, call.manufacturer_id)]
  /\ UNCHANGED <<anchors, anchor_events, manufacturer_keys, pc, request,
                 session, response, accepted, verify_calls, ledger_calls,
                 incidents, ledger_state, call>>

\* The state before a direct call of create_signing_payload: the service has
\* taken no request.
InitCanon ==
  /\ call \in CanonCalls
  /\ anchors = {}
  /\ anchor_events = <<>>
  /\ manufacturer_keys = [m \in {} |-> Null]
  /\ pc = [r \in Requests |-> "idle"]
  /\ request = [r \in Requests |-> Blank]
  /\ session = [r \in Requests |-> EmptySession]
  /\ response = "none"
  /\ accepted = 0
  /\ verify_calls = 0
  /\ ledger_calls = 0
  /\ incidents = 0
  /\ ledger_state = "up"
  /\ result = NoResult

\* The state before a direct call of verify_signature
InitVerify ==
  /\ call \in VerifyCalls
  /\ anchors = {}
  /\ anchor_events = <<>>
  /\ manufacturer_keys = [m \in {} |-> Null]
  /\ pc = [r \in Requests |-> "idle"]
  /\ request = [r \in Requests |-> Blank]
  /\ session = [r \in Requests |-> EmptySession]
  /\ response = "none"
  /\ accepted = 0
  /\ verify_calls = 0
  /\ ledger_calls = 0
  /\ incidents = 0
  /\ ledger_state = "up"
  /\ result = NoResult

\* create_signing_payload applied to each of CanonCalls
NextCanon == create_signing_payload_call
SpecCanon == InitCanon /\ [][NextCanon]_vars

\* verify_signature applied to each of VerifyCalls
NextVerify == verify_signature_call
SpecVerify == InitVerify /\ [][NextVerify]_vars

\* ------------------------------------------------------------------ properties
\* What a step of request r is.
Commits(r)   == pc[r] = "synced" /\ pc'[r] = "idle"
Committed(r) == Commits(r) /\ response' = "201"
Begins(r)    == pc[r] = "idle" /\ pc'[r] = "stored"

HasAnchor(rows, h) == \E a \in rows : a.anchor_id = h
\* <<status, current_seal_id>> of the anchor with hardware id h
SealState(rows, h) ==
  IF HasAnchor(rows, h)
  THEN LET a == CHOOSE a \in rows : a.anchor_id = h
       IN  <<a.status, a.current_seal_id>>
  ELSE <<"absent", Null>>

\* C1: every stored anchor has current_seal_id set if and only if its
\* status is SEALED.
C1_SealIdIffSealed ==
  \A a \in anchors : (a.current_seal_id # Null) <=> (a.status = "SEALED")

\* C2: an event whose signature verification failed is stored, and its
\* commit leaves the status and current_seal_id of the anchor it names as
\* they were (an anchor that did not exist still does not exist).
C2_UnverifiedDoesNotFold ==
  [][\A r \in Requests :
       (Committed(r) /\ ~session[r].db_event[1].signature_verified)
         => /\ Len(anchor_events') = Len(anchor_events) + 1
            /\ SealState(anchors', request[r].anchor_id)
                 = SealState(anchors, request[r].anchor_id)]_vars

\* The payload names no manufacturer, or one the registry has no key for.
NoKeyFor(d) ==
  \/ d.event_type # "ANCHOR_REGISTERED"
  \/ d.manufacturer_id \notin DOMAIN manufacturer_keys

\* C3: when no public key can be resolved for an event, verification fails:
\* the event row staged for it has signature_verified = FALSE.
C3_FailClosedOnMissingKey ==
  [][\A r \in Requests :
       (Begins(r) /\ NoKeyFor(request'[r]))
         => ~session'[r].db_event[1].signature_verified]_vars

\* C4: a payload with no event_type, an unknown event_type or variant fields
\* that fail validation is answered 400 or 422, and handling it changes no
\* anchor and no event record, calls neither verify_signature nor the ledger
\* sink and starts no processing.
C4_RejectedBeforeAnyWork ==
  [][\A r \in Requests, d \in MalformedPayloads :
       ingest_event(r, d)
         => /\ response' \in {"400", "422"}
            /\ UNCHANGED <<anchors, anchor_events, verify_calls, ledger_calls,
                           pc, session>>]_vars

\* A payload was rejected after an anchor and an event record were stored.
C4_Witness ==
  response \in {"400", "422"} /\ anchors # {} /\ anchor_events # <<>>

\* The anchor rows without the revocation flag, which Revoke alone sets.
Unrevoked(rows) == { [a EXCEPT !.is_revoked = FALSE] : a \in rows }

\* The anchor change pending in session sess is in the table rows.
PendingApplied(rows, sess) ==
  \/ sess.anchor = NoRow
  \/ /\ sess.is_new
     /\ \E a \in rows : [a EXCEPT !.id = 0] = sess.anchor[1]
  \/ /\ ~sess.is_new
     /\ \E a \in rows :
          /\ a.id = sess.anchor[1].id
          /\ \A c \in ChangedColumns(sess.loaded[1], sess.anchor[1]) :
               a[c] = sess.anchor[1][c]

\* C5: the event record and the anchor change of one process_event call are
\* committed in one step or not at all: an anchor changes only in a step
\* that appends the event record, an event record is appended only together
\* with the anchor change its request computed, and a commit that fails
\* leaves both tables as they were and ends the request with an error.
C5_AtomicCommit ==
  [][/\ Unrevoked(anchors') # Unrevoked(anchors)
          => Len(anchor_events') = Len(anchor_events) + 1
     /\ anchor_events' # anchor_events
          => \E r \in Requests :
               /\ Committed(r)
               /\ anchor_events' = Append(anchor_events, session[r].db_event[1])
               /\ PendingApplied(anchors', session[r])
     /\ \A r \in Requests :
          (Commits(r) /\ response' # "201")
            => /\ response' \in {"500 OperationalError", "500 IntegrityError"}
               /\ anchors' = anchors /\ anchor_events' = anchor_events]_vars

\* A commit failed on the store after an earlier one had stored an event
\* and its anchor.
C5_Witness ==
  response = "500 OperationalError" /\ anchors # {} /\ anchor_events # <<>>

\* C6: two events for one hardware id processed concurrently leave the
\* anchor as one of the two serial orders does.  For ANCHOR_SEAL_ARMED and
\* ANCHOR_SEAL_BROKEN, which both write status and current_seal_id: when
\* such an event commits, the anchor is (SEALED, its seal id), respectively
\* (BREACHED, none), or it is as the other request left it.
C6_SerialOutcome ==
  [][\A r \in Requests :
       (Committed(r) /\ HasAnchor(anchors, request[r].anchor_id))
         => LET h      == request[r].anchor_id
                before == SealState(anchors, h)
                after  == SealState(anchors', h)
            IN  /\ request[r].event_type = "ANCHOR_SEAL_ARMED"
                     => after \in {<<"SEALED", request[r].seal_id>>, before}
                /\ request[r].event_type = "ANCHOR_SEAL_BROKEN"
                     => after \in {<<"BREACHED", Null>>, before}]_vars

\* C7: there is at most one anchor row per hardware id, and no request is
\* lost to it: no ANCHOR_REGISTERED request ends in an integrity error.
C7_OneAnchorBothStored ==
  /\ \A a, b \in anchors : a.anchor_id = b.anchor_id => a = b
  /\ response # "500 IntegrityError"

\* C8: once an anchor's status is BREACHED, no step changes it to ACTIVE or
\* SEALED.
C8_BreachIrreversible ==
  [][\A a \in anchors : a.status = "BREACHED"
       => \A b \in anchors' :
            b.anchor_id = a.anchor_id => b.status \notin {"ACTIVE", "SEALED"}]_vars

C10_RevokedFrozen ==
  [][\A a \in anchors : a.is_revoked
       => \E b \in anchors' :
            /\ b.id = a.id
            /\ b.status = a.status
            /\ b.current_seal_id = a.current_seal_id
            /\ b.asset_id = a.asset_id
            /\ b.firmware_version = a.firmware_version]_vars

\* The ledger sync of request r's event failed: write_event returned None.
LedgerFailed(r) == pc[r] = "synced" /\ ~session[r].db_event[1].ledger_synced

\* C11: a ledger sink failure (another status than 201, a 201 without an
\* event id, a timeout or connection error) is not fatal: the sync step ends
\* normally with the event marked ledger_synced = FALSE and no
\* ledger_event_id and with the staged anchor change kept, and the commit
\* that follows stores that event record and the anchor change and answers
\* 201.
C11_LedgerFailureNotFatal ==
  [][\A r \in Requests :
       /\ \A reply \in LedgerReplies \ {"201"} :
            ledger_sync(r, reply)
              => /\ pc'[r] = "synced"
                 /\ ~session'[r].db_event[1].ledger_synced
                 /\ session'[r].db_event[1].ledger_event_id = <<>>
                 /\ session'[r].anchor = session[r].anchor
                 /\ UNCHANGED <<anchors, anchor_events, response>>
       /\ (LedgerFailed(r) /\ commit(r, TRUE))
            => /\ response' = "201"
               /\ anchor_events' = Append(anchor_events, session[r].db_event[1])
               /\ ~anchor_events'[Len(anchor_events')].ledger_synced
               /\ anchor_events'[Len(anchor_events')].ledger_event_id = <<>>
               /\ PendingApplied(anchors', session[r])]_vars

\* An ANCHOR_SEAL_ARMED whose ledger sync failed was answered 201: its event
\* record is stored unsynced and the anchor is sealed by it.
C11_Witness ==
  /\ response = "201"
  /\ anchor_events # <<>>
  /\ LET e == anchor_events[Len(anchor_events)]
     IN  /\ e.event_type = "ANCHOR_SEAL_ARMED"
         /\ ~e.ledger_synced /\ e.ledger_event_id = <<>>
         /\ SealState(anchors, e.anchor_id) = <<"SEALED", e.seal_id>>

\* C12: a failed ledger sync leaves a non-empty processing_error on the
\* event's record.
C12_LedgerFailureRecorded ==
  [][\A r \in Requests, reply \in LedgerReplies \ {"201"} :
       ledger_sync(r, reply)
         => session'[r].db_event[1].processing_error \notin {Null, ""}]_vars

\* The anchor rows with hardware id h
AnchorsOf(rows, h) == {a \in rows : a.anchor_id = h}

\* C13: the commit of an ANCHOR_REGISTERED for a hardware id with no anchor
\* leaves exactly one anchor for that id, with status ACTIVE, no
\* current_seal_id, the event's asset_id, hardware_model, firmware_version
\* and manufacturer_id and last_event_at = the event's timestamp; the other
\* anchors are as they were.
C13_RegisterCreates ==
  [][\A r \in Requests :
       (/\ Committed(r)
        /\ request[r].event_type = "ANCHOR_REGISTERED"
        /\ ~HasAnchor(anchors, request[r].anchor_id))
         => LET e == request[r]
                new == AnchorsOf(anchors', e.anchor_id)
            IN  /\ Cardinality(new) = 1
                /\ \A a \in new :
                     /\ a.status = "ACTIVE"
                     /\ a.current_seal_id = Null
                     /\ a.asset_id = e.asset_id
                     /\ a.hardware_model = e.hardware_model
                     /\ a.firmware_version = e.firmware_version
                     /\ a.manufacturer_id = e.manufacturer_id
                     /\ a.last_event_at = e.timestamp
                /\ anchors' \ new = anchors]_vars

\* Two hardware ids were registered, the second while the first had an
\* anchor: both anchors are ACTIVE with the asset of their event.
C13_Witness ==
  /\ Cardinality(anchors) = 2
  /\ \A h \in HardwareIds :
       \E a \in anchors : /\ a.anchor_id = h /\ a.status = "ACTIVE"
                          /\ a.asset_id = "a1" /\ a.last_event_at = 1

\* The anchor with hardware id h (there is one)
AnchorOf(rows, h) == CHOOSE a \in rows : a.anchor_id = h

C15_BrokenBreaches ==
  [][\A r \in Requests :
       (/\ Committed(r)
        /\ request[r].event_type = "ANCHOR_SEAL_BROKEN"
        /\ HasAnchor(anchors, request[r].anchor_id))
         => LET a == AnchorOf(anchors', request[r].anchor_id)
            IN  a.status = "BREACHED" /\ a.current_seal_id = Null]_vars

\* An anchor sealed with s2 was breached by an ANCHOR_SEAL_BROKEN naming s1.
C15_Witness ==
  /\ Len(anchor_events) = 3
  /\ anchor_events[2].event_type = "ANCHOR_SEAL_ARMED"
  /\ anchor_events[2].seal_id = "s2"
  /\ anchor_events[3].event_type = "ANCHOR_SEAL_BROKEN"
  /\ anchor_events[3].seal_id = "s1"
  /\ SealState(anchors, "h1") = <<"BREACHED", Null>>

\* The anchor columns a re-registration must leave alone.
ReRegistrationFrame ==
  {"id", "anchor_id", "status", "current_seal_id", "hardware_model",
   "manufacturer_id", "public_key", "is_revoked"}

OtherCommitted(r) ==
  /\ Committed(r)
  /\ request[r].event_type \in {"ANCHOR_ENVIRONMENTAL_ALERT", "ANCHOR_CUSTODY_SIGNAL"}
  /\ HasAnchor(anchors, request[r].anchor_id)

\* C17 as stated: the commit of an ANCHOR_ENVIRONMENTAL_ALERT or
\* ANCHOR_CUSTODY_SIGNAL for an existing anchor sets last_event_at to the
\* event's timestamp and leaves every other field of the anchor, and every
\* other anchor, unchanged.
C17_OnlyLastEventAt ==
  [][\A r \in Requests :
       OtherCommitted(r)
         => LET old == AnchorOf(anchors, request[r].anchor_id)
            IN  anchors' = (anchors \ {old}) \cup
                  {[old EXCEPT !.last_event_at = request[r].timestamp]}]_vars

\* C17 amended: the commit of an ANCHOR_ENVIRONMENTAL_ALERT or
\* ANCHOR_CUSTODY_SIGNAL for an existing anchor sets last_event_at to the
\* event's timestamp and leaves every other field of the anchor unchanged
\* except updated_at, which the store advances when the row is updated; no
\* other anchor changes.
C17_OnlyLastEventAtAndUpdatedAt ==
  [][\A r \in Requests :
       OtherCommitted(r)
         => LET old == AnchorOf(anchors, request[r].anchor_id)
                new == AnchorOf(anchors', request[r].anchor_id)
            IN  /\ anchors' \ {new} = anchors \ {old}
                /\ new.last_event_at = request[r].timestamp
                /\ \A c \in DOMAIN old \ {"last_event_at", "updated_at"} :
                     new[c] = old[c]
                /\ new.updated_at >= old.updated_at]_vars

\* An environmental alert of time 2 was committed for an anchor sealed at
\* time 1: the anchor is still sealed with its seal, last seen at time 2.
C17_Witness ==
  /\ Len(anchor_events) = 3
  /\ anchor_events[2].event_type = "ANCHOR_SEAL_ARMED"
  /\ anchor_events[2].event_timestamp = 1
  /\ anchor_events[3].event_type = "ANCHOR_ENVIRONMENTAL_ALERT"
  /\ \E a \in anchors :
       /\ a.anchor_id = "h1" /\ a.status = "SEALED"
       /\ a.current_seal_id = anchor_events[2].seal_id
       /\ a.last_event_at = 2 /\ a.updated_at = 2

\* C18: an ANCHOR_SEAL_ARMED, ANCHOR_SEAL_BROKEN, ANCHOR_ENVIRONMENTAL_ALERT
\* or ANCHOR_CUSTODY_SIGNAL for a hardware id with no anchor is committed
\* with the anchors exactly as they were (none created, none changed) and
\* its event record stored, and the request is answered 201.
C18_AbsentAnchorNoOp ==
  [][\A r \in Requests :
       (/\ commit(r, TRUE)
        /\ request[r].event_type # "ANCHOR_REGISTERED"
        /\ ~HasAnchor(anchors, request[r].anchor_id))
         => /\ response' = "201"
            /\ anchors' = anchors
            /\ Len(anchor_events') = Len(anchor_events) + 1
            /\ LET e == anchor_events'[Len(anchor_events')]
               IN  /\ e.event_type = request[r].event_type
                   /\ e.anchor_id = request[r].anchor_id
                   /\ e.raw_payload = model_dump(request[r])]_vars

\* With h2 registered and h1 not, an ANCHOR_SEAL_ARMED and an
\* ANCHOR_SEAL_BROKEN for h1 were stored: h2's anchor is the only one and is
\* as its registration left it.
C18_Witness ==
  /\ Len(anchor_events) = 3
  /\ anchor_events[1].event_type = "ANCHOR_REGISTERED"
  /\ anchor_events[1].anchor_id = "h2"
  /\ anchor_events[2].event_type = "ANCHOR_SEAL_ARMED"
  /\ anchor_events[2].anchor_id = "h1"
  /\ anchor_events[3].event_type = "ANCHOR_SEAL_BROKEN"
  /\ anchor_events[3].anchor_id = "h1"
  /\ Cardinality(anchors) = 1
  /\ \A a \in anchors : /\ a.anchor_id = "h2" /\ a.status = "ACTIVE"
                        /\ a.current_seal_id = Null /\ a.updated_at = 0

\* A well-formed row of table anchors: the columns of models/anchor.py with
\* a status of AnchorStatus and the NOT NULL columns set.
IsAnchorRow(a) ==
  /\ DOMAIN a = AnchorColumns \cup {"id", "anchor_id", "updated_at"}
  /\ a.status \in AnchorStatus
  /\ a.anchor_id \notin {Null, ""}
  /\ \A c \in {"hardware_model", "firmware_version", "manufacturer_id",
               "public_key"} : a[c] # Null
  /\ a.is_revoked \in BOOLEAN
  /\ a.last_event_at \in Nat

\* The stored anchors, each taken with every status an anchor can have.
PriorAnchors ==
  {NoRow} \cup {<<[a EXCEPT !.status = st]>> : a \in anchors, st \in AnchorStatus}

\* C19: _update_anchor_state is total: for an anchor absent or present with
\* any status, and for an event of each of the five variants, it returns
\* normally (an outcome of anchor and is_new, nothing raised) with a
\* well-formed anchor row, or with no anchor exactly when the anchor is
\* absent and the event is not ANCHOR_REGISTERED; and a request whose event
\* is stored can always take its update step.
C19_TransitionTotal ==
  /\ \A d \in WellFormedPayloads, found \in PriorAnchors :
       LET event == model_dump(d)
           after == update_anchor_state(found, event)
       IN  /\ DOMAIN after = {"anchor", "is_new"}
           /\ after.is_new \in BOOLEAN
           /\ (after.anchor = NoRow)
                <=> (found = NoRow /\ event.event_type # "ANCHOR_REGISTERED")
           /\ after.anchor # NoRow =>
                /\ Len(after.anchor) = 1
                /\ IsAnchorRow(after.anchor[1])
                /\ after.anchor[1].status \in
                     {"ACTIVE", "SEALED", "BREACHED"} \cup
                       {found[i].status : i \in 1..Len(found)}
  /\ \A r \in Requests : pc[r] = "stored" => ENABLED update_anchor(r)

\* A custody signal is stored and about to be applied to a BREACHED anchor,
\* while ANCHOR_REGISTERED and ANCHOR_SEAL_BROKEN have been applied.
C19_Witness ==
  /\ \E r \in Requests :
       pc[r] = "stored" /\ request[r].event_type = "ANCHOR_CUSTODY_SIGNAL"
  /\ Len(anchor_events) = 2
  /\ SealState(anchors, "h1") = <<"BREACHED", Null>>

\* An event record with the payload and signature of request r is stored.
AlreadyStored(r) ==
  \E i \in 1..Len(anchor_events) :
    /\ anchor_events[i].raw_payload = model_dump(request[r])
    /\ anchor_events[i].signature = request[r].signature

\* C20: there is no deduplication.  Every commit answered 201 adds exactly
\* one event record; and the commit of a payload and signature that are
\* stored already succeeds like the first, adds one more record with that
\* payload, and applies the event to the anchor once more: the anchor takes
\* the event's timestamp and its asset and firmware (ANCHOR_REGISTERED),
\* SEALED with the event's seal (ANCHOR_SEAL_ARMED), BREACHED with no seal
\* (ANCHOR_SEAL_BROKEN).
C20_NoDeduplication ==
  [][\A r \in Requests :
       /\ Committed(r) => Len(anchor_events') = Len(anchor_events) + 1
       /\ (commit(r, TRUE) /\ AlreadyStored(r))
            => LET e == request[r]
                   h == e.anchor_id
               IN  /\ response' = "201"
                   /\ Len(anchor_events') = Len(anchor_events) + 1
                   /\ anchor_events'[Len(anchor_events')].raw_payload = model_dump(e)
                   /\ HasAnchor(anchors, h) =>
                        /\ AnchorOf(anchors', h).last_event_at = e.timestamp
                        /\ e.event_type = "ANCHOR_REGISTERED" =>
                             /\ AnchorOf(anchors', h).asset_id = e.asset_id
                             /\ AnchorOf(anchors', h).firmware_version
                                  = e.firmware_version
                        /\ e.event_type = "ANCHOR_SEAL_ARMED" =>
                             SealState(anchors', h) = <<"SEALED", e.seal_id>>
                        /\ e.event_type = "ANCHOR_SEAL_BROKEN" =>
                             SealState(anchors', h) = <<"BREACHED", Null>>]_vars

\* The registration of h1 with asset a1 was submitted, then one with asset
\* a2, then the first again: three records are stored, the first and the
\* third alike, and the anchor is bound to a1 again.
C20_Witness ==
  /\ Len(anchor_events) = 3
  /\ \A i \in 1..3 : anchor_events[i].event_type = "ANCHOR_REGISTERED"
  /\ anchor_events[1].raw_payload = anchor_events[3].raw_payload
  /\ anchor_events[1].signature = anchor_events[3].signature
  /\ anchor_events[2].raw_payload.asset_id = "a2"
  /\ \E a \in anchors : /\ a.anchor_id = "h1" /\ a.asset_id = "a1"
                        /\ a.firmware_version = "f1" /\ a.last_event_at = 1
                        /\ a.updated_at = 2

\* C21: stored event records are write-once.  No step removes an event
\* record or changes the raw_payload, signature or signature_verified of
\* one; signature_verified is computed once, when the event is taken in:
\* verify_signature is called in that step only, once, and the value staged
\* then is the value of the record from staging to commit.
C21_EventsWriteOnce ==
  [][/\ Len(anchor_events') >= Len(anchor_events)
     /\ \A i \in 1..Len(anchor_events) :
          /\ anchor_events'[i].raw_payload = anchor_events[i].raw_payload
          /\ anchor_events'[i].signature = anchor_events[i].signature
          /\ anchor_events'[i].signature_verified
               = anchor_events[i].signature_verified
     /\ verify_calls' =
          verify_calls + Cardinality({r \in Requests : Begins(r)})
     /\ \A r \in Requests :
          /\ (InProcess(r) /\ ~Commits(r))
               => /\ session'[r].db_event[1].signature_verified
                       = session[r].db_event[1].signature_verified
                  /\ session'[r].db_event[1].raw_payload
                       = session[r].db_event[1].raw_payload
                  /\ session'[r].db_event[1].signature
                       = session[r].db_event[1].signature
          /\ Committed(r)
               => LET e == anchor_events'[Len(anchor_events')]
                  IN  /\ e.signature_verified
                           = session[r].db_event[1].signature_verified
                      /\ e.raw_payload = model_dump(request[r])
                      /\ e.signature = request[r].signature]_vars

\* An unverified registration of h1 was stored, then a verified one, then
\* an ANCHOR_SEAL_ARMED: the first record still says unverified.
C21_Witness ==
  /\ Len(anchor_events) = 3
  /\ anchor_events[1].event_type = "ANCHOR_REGISTERED"
  /\ ~anchor_events[1].signature_verified
  /\ anchor_events[2].event_type = "ANCHOR_REGISTERED"
  /\ anchor_events[2].signature_verified
  /\ anchor_events[2].anchor_id = anchor_events[1].anchor_id
  /\ anchor_events[3].event_type = "ANCHOR_SEAL_ARMED"
  /\ verify_calls = 3

\* Coordinates at, next to and away from the boundaries.
LatProbes == {-LatMax - 1, -LatMax, -LatMax + 1, 0, LatMax - 1, LatMax, LatMax + 1}
LonProbes == {-LonMax - 1, -LonMax, -LonMax + 1, 0, LonMax - 1, LonMax, LonMax + 1}

\* C22: geo validation is inclusive at the boundaries.  A latitude is
\* accepted iff it is in [-900000000, 900000000] and a longitude iff it is in
\* [-1800000000, 1800000000]; an ANCHOR_SEAL_ARMED or ANCHOR_SEAL_BROKEN
\* payload, otherwise well-formed, passes validation iff both are in range
\* (422 if not); and every stored record of these two variants carries
\* coordinates in range.
C22_GeoInclusive ==
  /\ validate_lat(900000000) /\ ~validate_lat(900000001)
  /\ validate_lat(-900000000) /\ ~validate_lat(-900000001)
  /\ validate_lon(1800000000) /\ ~validate_lon(1800000001)
  /\ validate_lon(-1800000000) /\ ~validate_lon(-1800000001)
  /\ \A lat \in LatProbes, lon \in LonProbes, base \in {BaseArmed, BaseBroken} :
       LET d == [base EXCEPT !.lat_e7 = lat, !.lon_e7 = lon]
           in_range == /\ -900000000 <= lat /\ lat <= 900000000
                       /\ -1800000000 <= lon /\ lon <= 1800000000
       IN  /\ GeoCoordinate(d) <=> in_range
           /\ validation_status(d) = IF in_range THEN "ok" ELSE "422"
  /\ \A i \in 1..Len(anchor_events) :
       anchor_events[i].event_type \in {"ANCHOR_SEAL_ARMED", "ANCHOR_SEAL_BROKEN"}
         => /\ -900000000 <= anchor_events[i].geo_lat_e7
            /\ anchor_events[i].geo_lat_e7 <= 900000000
            /\ -1800000000 <= anchor_events[i].geo_lon_e7
            /\ anchor_events[i].geo_lon_e7 <= 1800000000

\* Events with coordinates on the boundaries are stored (latitude 900000000
\* with longitude -1800000000, latitude -900000000 with longitude
\* 1800000000) and a payload was answered 422.
C22_Witness ==
  /\ \E i \in 1..Len(anchor_events) :
       /\ anchor_events[i].event_type = "ANCHOR_SEAL_ARMED"
       /\ anchor_events[i].geo_lat_e7 = 900000000
       /\ anchor_events[i].geo_lon_e7 = -1800000000
  /\ \E i \in 1..Len(anchor_events) :
       /\ anchor_events[i].event_type = "ANCHOR_SEAL_BROKEN"
       /\ anchor_events[i].geo_lat_e7 = -900000000
       /\ anchor_events[i].geo_lon_e7 = 1800000000
  /\ response = "422"

\* C23: canonicalization is deterministic and order-independent.  For the
\* map {anchor_id: h1, seal_id: s, geo: {lat_e7: 1, lon_e7: 2}} given in any
\* insertion order (of the map and of geo), with or without a top-level
\* signature of any value, create_signing_payload returns the same bytes,
\* the keys in sorted order, and no key of the output is "signature".
C23_CanonicalDeterministic ==
  (result.returned /\ call.op = "create_signing_payload")
    => /\ result.canonical =
            <<"{", "\"anchor_id\"", ":", "\"h1\"", ",",
                   "\"geo\"", ":", "{\"lat_e7\":1,\"lon_e7\":2}", ",",
                   "\"seal_id\"", ":",
                   "\"" \o dict_get(call.items, "seal_id") \o "\"", "}">>
       /\ \A i \in 1..Len(result.canonical) :
            i % 4 = 2 => result.canonical[i] # "\"signature\""
       /\ \A c \in CanonCalls :
            dict_get(c.items, "seal_id") = dict_get(call.items, "seal_id")
              => create_signing_payload(c.items) = result.canonical

\* create_signing_payload has returned for a map whose first key is
\* signature and whose other keys are not in sorted order.
C23_Witness ==
  /\ result.returned /\ call.op = "create_signing_payload"
  /\ Len(call.items) = 4
  /\ call.items[1][1] = "signature"
  /\ call.items[2][1] = "seal_id"
  /\ call.items[3][1] = "geo" /\ call.items[3][2][1][1] = "lon_e7"
  /\ Len(result.canonical) = 13

\* The key a call of verify_signature supplies or resolves from its registry
ResolvedKey(c) ==
  LET mid == IF c.manufacturer_id # Null THEN c.manufacturer_id
             ELSE c.event_data.manufacturer_id
  IN  IF c.public_key_b64 # Null THEN c.public_key_b64
      ELSE IF mid \in DOMAIN c.keys THEN c.keys[mid]
      ELSE Null

\* C24: when a key is supplied or resolved from the registry,
\* verify_signature returns (no exception escapes) and returns true exactly
\* when key and signature decode to a 32-byte key and a 64-byte signature and
\* the signature is the one that key's owner makes over the canonical bytes
\* of the event: false for a signature or key that is not base64, has the
\* wrong length, is made by another key or is made over other bytes.
C24_VerifyOnlyValid ==
  (call.op = "verify_signature" /\ ResolvedKey(call) # Null)
    => /\ ENABLED verify_signature_call \/ result.returned
       /\ result.returned =>
            /\ result.verified \in BOOLEAN
            /\ result.verified
                 <=> /\ ResolvedKey(call) \in {"K1", "K2"}
                     /\ call.signature_b64 = Sign(ResolvedKey(call), VerifiedBytes)

\* verify_signature has returned false for a signature made by K2 when the
\* registry resolves the event's manufacturer to K1.
C24_Witness ==
  /\ result.returned /\ call.op = "verify_signature"
  /\ call.public_key_b64 = Null /\ call.manufacturer_id = Null
  /\ ResolvedKey(call) = "K1"
  /\ call.signature_b64 = Sign("K2", VerifiedBytes)
  /\ ~result.verified

\* The positions of the stored events of hardware id h
EventsOf(h) == {i \in 1..Len(anchor_events) : anchor_events[i].anchor_id = h}
\* The last of them
LastEventOf(h) ==
  anchor_events[CHOOSE i \in EventsOf(h) : \A j \in EventsOf(h) : j <= i]

\* C25: last_event_at is last-write-wins.  After any sequence of events,
\* every anchor's last_event_at is the timestamp of the last event processed
\* for its hardware id; and an event older than the anchor's last_event_at is
\* not rejected: its commit is answered 201 and leaves last_event_at at the
\* event's earlier timestamp.
C25_LastWriteWins ==
  /\ [](\A a \in anchors :
          /\ EventsOf(a.anchor_id) # {}
          /\ a.last_event_at = LastEventOf(a.anchor_id).event_timestamp)
  /\ [][\A r \in Requests :
          (/\ commit(r, TRUE)
           /\ HasAnchor(anchors, request[r].anchor_id)
           /\ request[r].timestamp < AnchorOf(anchors, request[r].anchor_id).last_event_at)
            => /\ response' = "201"
               /\ AnchorOf(anchors', request[r].anchor_id).last_event_at
                    = request[r].timestamp]_vars

\* An anchor registered at time 2 was then sealed by an event of time 1: its
\* last_event_at went back to 1.
C25_Witness ==
  /\ Len(anchor_events) = 2
  /\ anchor_events[1].event_type = "ANCHOR_REGISTERED"
  /\ anchor_events[1].event_timestamp = 2
  /\ anchor_events[2].event_type = "ANCHOR_SEAL_ARMED"
  /\ anchor_events[2].event_timestamp = 1
  /\ \E a \in anchors : /\ a.anchor_id = "h1" /\ a.status = "SEALED"
                        /\ a.last_event_at = 1

\* The anchor rows without their primary keys (fresh uuid4 values)
WithoutIds(rows) == {[a EXCEPT !.id = 0] : a \in rows}
\* The anchor rows of the hardware ids other than h
Others(rows, h) == {a \in rows : a.anchor_id # h}
\* The hardware id of the event request r carries into or through this step
StepHardwareId(r) ==
  IF pc[r] = "idle" THEN request'[r].anchor_id ELSE request[r].anchor_id

\* A registration, an arming, a breach and a custody signal of hardware id h
EventsFor(h) ==
  { model_dump(d) : d \in
  { [BaseRegistered EXCEPT !.anchor_id = h, !.timestamp = 2, !.asset_id = "a2"],
    [BaseArmed EXCEPT !.anchor_id = h, !.seal_id = "s2"],
    [BaseBroken EXCEPT !.anchor_id = h, !.timestamp = 2],
    [Blank EXCEPT !.event_type = "ANCHOR_CUSTODY_SIGNAL", !.anchor_id = h,
       !.timestamp = 3, !.signature = "c2ln", !.challenge_id = "c1",
       !.direction = "RELEASE", !.counterparty_pubkey = "K2"] } }
EventsForH1 == EventsFor("h1")
EventsForH2 == EventsFor("h2")

\* C26: every step of process_event for an event of hardware id A (store,
\* transition, ledger call, commit; overlapping requests included) leaves the
\* anchors of every other hardware id and the manufacturer key registry as
\* they were; and events for different hardware ids commute: from every
\* reachable anchors table, processing an event for h1 and then one for h2
\* (each a registration, an arming, a breach or a custody signal) gives the
\* same anchors as processing them in the other order.
C26_OtherAnchorsUntouched ==
  /\ [][\A r \in Requests :
          pc'[r] # pc[r]
            => /\ Others(anchors', StepHardwareId(r)) = Others(anchors, StepHardwareId(r))
               /\ manufacturer_keys' = manufacturer_keys]_vars
  /\ [](\A d1 \in EventsForH1, d2 \in EventsForH2 :
                   WithoutIds(process_event_anchors(process_event_anchors(anchors, d1), d2))
                     = WithoutIds(process_event_anchors(process_event_anchors(anchors, d2), d1)))

\* With anchors for h1 and h2, an ANCHOR_SEAL_ARMED for h1 was committed:
\* h1 is SEALED and h2 is as its registration left it.
C26_Witness ==
  /\ Len(anchor_events) = 3
  /\ anchor_events[3].event_type = "ANCHOR_SEAL_ARMED"
  /\ anchor_events[3].anchor_id = "h1"
  /\ \E a \in anchors : a.anchor_id = "h1" /\ a.status = "SEALED"
  /\ \E a \in anchors : /\ a.anchor_id = "h2" /\ a.status = "ACTIVE"
                        /\ a.current_seal_id = Null /\ a.last_event_at = 1
                        /\ a.updated_at = 0

\* C27: with the ledger unreachable from the start and for ever, every
\* process_event call on a validated event eventually finishes (its request
\* commits or fails): the ledger call ends, here by its timeout, and the
\* pipeline goes on to the commit.
C27_EventuallyFinishes ==
  \A r \in Requests : InProcess(r) ~> ~InProcess(r)

\* With the ledger down, an event was committed and answered 201: its
\* ledger call ended without an id, its record is processed and not synced.
C27_Witness ==
  /\ ledger_state = "down"
  /\ response = "201"
  /\ Len(anchor_events) = 1
  /\ anchor_events[1].processed
  /\ ~anchor_events[1].ledger_synced
  /\ ledger_calls = 1
  /\ \A r \in Requests : ~InProcess(r)

\* The steps of process_event in the order of its lines 53-68
PipelineOrder ==
  { <<"idle", "stored">>, <<"stored", "updated">>, <<"updated", "synced">>,
    <<"synced", "idle">> }

\* C28: for each validated event the steps come in the order verify
\* signature, stage the event record, apply the anchor transition, call the
\* ledger, commit.  The step that takes the event verifies once and stages
\* the record with that verdict, with no transition applied and no ledger
\* call made; the transition step calls no ledger and commits nothing; the
\* ledger step is one call, made with nothing committed yet, for verified
\* and unverified events alike; the commit makes no ledger call and follows
\* the one already made.  So the ledger is called exactly once per event.
C28_PipelineOrder ==
  /\ [][\A r \in Requests :
          /\ pc'[r] # pc[r] => <<pc[r], pc'[r]>> \in PipelineOrder
          /\ Begins(r)
               => /\ verify_calls' = verify_calls + 1
                  /\ Len(session'[r].db_event) = 1
                  /\ session'[r].db_event[1].signature_verified =
                       verify_signature(manufacturer_keys, model_dump(request'[r]),
                                        request'[r].signature, Null,
                                        model_dump(request'[r]).manufacturer_id)
                  /\ ~session'[r].db_event[1].processed
                  /\ session'[r].anchor = NoRow /\ session'[r].loaded = NoRow
                  /\ ledger_calls' = ledger_calls
                  /\ UNCHANGED <<anchors, anchor_events>>
          /\ (pc[r] = "stored" /\ pc'[r] = "updated")
               => /\ ~session'[r].db_event[1].processed
                  /\ UNCHANGED <<verify_calls, ledger_calls, anchors, anchor_events>>
          /\ (pc[r] = "updated" /\ pc'[r] = "synced")
               => /\ ledger_calls' = ledger_calls + 1
                  /\ session'[r].db_event[1].processed
                  /\ UNCHANGED <<verify_calls, anchors, anchor_events>>
          /\ Commits(r)
               => /\ session[r].db_event[1].processed
                  /\ UNCHANGED <<verify_calls, ledger_calls>>]_vars
  /\ [](/\ accepted = verify_calls
        /\ accepted = ledger_calls
                       + Cardinality({r \in Requests : pc[r] \in {"stored", "updated"}})
        /\ \A i \in 1..Len(anchor_events) : anchor_events[i].processed
        /\ \A r \in Requests :
             pc[r] = "updated" => ENABLED (\E reply \in LedgerReplies : ledger_sync(r, reply)))

\* An event that failed verification was sent to the ledger and committed
\* as synced: one verification and one ledger call for the one event.
C28_Witness ==
  /\ Len(anchor_events) = 1
  /\ ~anchor_events[1].signature_verified
  /\ anchor_events[1].ledger_synced
  /\ anchor_events[1].processed
  /\ accepted = 1 /\ verify_calls = 1 /\ ledger_calls = 1

\* An ANCHOR_REGISTERED event for hardware id h has been committed.
RegisteredCommitted(h) ==
  \E i \in 1..Len(anchor_events) :
    /\ anchor_events[i].event_type = "ANCHOR_REGISTERED"
    /\ anchor_events[i].anchor_id = h

\* C29: anchors are created only by ANCHOR_REGISTERED and never deleted.  In
\* every reachable state a hardware id has an anchor exactly when an
\* ANCHOR_REGISTERED event for it has been committed; and in every step each
\* anchor stays (same primary key, same hardware id), and an anchor is added
\* only by the commit of an ANCHOR_REGISTERED event, for that event's
\* hardware id.
C29_AnchorsOnlyFromRegistration ==
  /\ [](\A h \in HardwareIds : HasAnchor(anchors, h) <=> RegisteredCommitted(h))
  /\ [][/\ \A a \in anchors :
             \E b \in anchors' : b.id = a.id /\ b.anchor_id = a.anchor_id
        /\ Cardinality(anchors') >= Cardinality(anchors)
        /\ \A b \in anchors' :
             (\A a \in anchors : a.id # b.id)
               => \E r \in Requests :
                    /\ Committed(r)
                    /\ request[r].event_type = "ANCHOR_REGISTERED"
                    /\ request[r].anchor_id = b.anchor_id]_vars

\* h1 has an anchor after its registration and two more events; h2, for
\* which nothing was registered, has none.
C29_Witness ==
  /\ Len(anchor_events) = 3
  /\ anchor_events[1].event_type = "ANCHOR_REGISTERED"
  /\ anchor_events[1].anchor_id = "h1"
  /\ anchor_events[2].event_type = "ANCHOR_SEAL_ARMED"
  /\ anchor_events[3].event_type = "ANCHOR_SEAL_BROKEN"
  /\ HasAnchor(anchors, "h1") /\ ~HasAnchor(anchors, "h2")
  /\ Cardinality(anchors) = 1

\* Each well-formed event of the four variants other than ANCHOR_REGISTERED,
\* validated, paired with the same event carrying another signature.
SignatureVariants ==
  { <<model_dump(d), model_dump([d EXCEPT !.signature = sig])>> :
      d \in {x \in WellFormedPayloads : x.event_type # "ANCHOR_REGISTERED"},
      sig \in {"c2ln", "!not-base64"} }

\* signature_verified as process_event computes it for the validated event
SignatureVerified(keys, event) ==
  verify_signature(keys, event, event.signature, Null, event.manufacturer_id)

C31_NeverBackToActive ==
  /\ [](\A a \in anchors : a.status \in {"ACTIVE", "SEALED", "BREACHED"})
  /\ [][\A b \in anchors' :
          /\ (\A a \in anchors : a.id # b.id) => b.status = "ACTIVE"
          /\ \A a \in anchors :
               (a.id = b.id /\ a.status \in {"SEALED", "BREACHED"})
                 => b.status \in {"SEALED", "BREACHED"}]_vars

\* An anchor was registered, its seal broken, and then registered again with
\* another asset: it has the new asset and is still BREACHED.
C31_Witness ==
  /\ Len(anchor_events) = 3
  /\ anchor_events[1].event_type = "ANCHOR_REGISTERED"
  /\ anchor_events[2].event_type = "ANCHOR_SEAL_BROKEN"
  /\ anchor_events[3].event_type = "ANCHOR_REGISTERED"
  /\ anchor_events[3].anchor_id = "h1"
  /\ \E a \in anchors : /\ a.anchor_id = "h1" /\ a.status = "BREACHED"
                        /\ a.asset_id = anchor_events[3].asset_id
                        /\ a.last_event_at = anchor_events[3].event_timestamp

====
